---------------------------- MODULE Spec2Model ----------------------------
(***************************************************************************)
(* Model of the accessibility MCP server's colour engine                  *)
(* (plugins/accessibility/mcp-server/src/color-utils.ts and               *)
(* wcag-contrast.ts).                                                     *)
(*                                                                         *)
(* Conventions                                                             *)
(*  - A text is a sequence of one-character strings.                      *)
(*  - A JavaScript number that is an integer is an integer here; NaN is   *)
(*    the reserved value NaN.                                              *)
(*  - Real-valued intermediate results are kept as exact fractions and    *)
(*    rounded where the code calls Math.round (round half up).  IEEE-754  *)
(*    evaluation can differ from the exact value by one unit on an exact  *)
(*    .5 tie.                                                              *)
(***************************************************************************)
EXTENDS Integers, Sequences, FiniteSets, TLC

VARIABLES
    pc,          \* position of the caller's script
    \* a caller of parseColor and rgbToHex
    color,       \* the text handed in
    parsed,      \* parseColor(color)
    hexText,     \* rgbToHex(parsed)
    reparsed,    \* parseColor(hexText)
    \* a caller of rgbToHsl and hslToRgb
    srcRgb,      \* the colour handed in
    asHsl,       \* rgbToHsl(srcRgb)
    backRgb,     \* hslToRgb(asHsl)
    \* a caller of getRelativeLuminance and getContrastRatio
    colorA, colorB,      \* the two colours handed in
    lum1, lum2,          \* their relative luminances
    ratio12, ratio21,    \* getContrastRatio in both argument orders
    \* one call of findAccessibleColor: its parameters and locals
    foreground, background, targetRatio, adjustForeground,
    minL, maxL, iterations,
    result,      \* what the call returned
    \* a caller of getContrastRequirements and analyzeColorPair
    handedTable,     \* the table getContrastRequirements handed to the caller
    tampered,        \* how many entries of it the caller has overwritten
    analysis,        \* the last call of analyzeColorPair and what it returned
    \* one call of suggestAccessibleColors
    fgText, bgText, requestedRatio, preserveProperty,
    suggestions,     \* what the call returned
    \* one tool call handled by the MCP server
    request,         \* the tool's name and its arguments
    response,        \* what the request handler returned
    \* a caller of adjustLightness that raises the lightness it asks for
    litRgb,          \* the colour handed in
    litLightness,    \* the lightness asked for, in units of 1/LUnit percent
    relit,           \* adjustLightness(litRgb, litLightness)
    onWhite,         \* the contrast ratio of relit against white
    onBlack          \* the contrast ratio of relit against black

parseVars == <<color, parsed, hexText, reparsed>>
hslVars == <<srcRgb, asHsl, backRgb>>
contrastVars == <<colorA, colorB, lum1, lum2, ratio12, ratio21>>
searchVars == <<foreground, background, targetRatio, adjustForeground,
                minL, maxL, iterations, result>>
analyzeVars == <<handedTable, tampered, analysis>>
suggestVars == <<fgText, bgText, requestedRatio, preserveProperty, suggestions>>
toolVars == <<request, response>>
relightVars == <<litRgb, litLightness, relit, onWhite, onBlack>>
vars == <<pc, parseVars, hslVars, contrastVars, searchVars, analyzeVars,
          suggestVars, toolVars, relightVars>>

(***************************************************************************)
(* Numbers and characters                                                  *)
(***************************************************************************)

\* The value parseInt returns when no digit can be read.
NaN == -1000000

Abs(x) == IF x < 0 THEN -x ELSE x

Max2(a, b) == IF a >= b THEN a ELSE b

Min2(a, b) == IF a <= b THEN a ELSE b

\* Math.round(a / b) for b > 0: the nearest integer, halves going up.
MathRound(a, b) ==
    IF b % 2 = 0 THEN (a + b \div 2) \div b ELSE (2 * a + b) \div (2 * b)

HexDigits == <<"0", "1", "2", "3", "4", "5", "6", "7", "8", "9",
               "a", "b", "c", "d", "e", "f">>

DecDigitChars == {HexDigits[i] : i \in 1..10}

HexDigitChars == {HexDigits[i] : i \in 1..16}

DigitValue(c) == (CHOOSE i \in 1..16 : HexDigits[i] = c) - 1

\* White space as String.prototype.trim, parseInt and the regex class \s see it.
WhiteSpace == {" ", "\t", "\n"}

UpperToLower ==
    [c \in {"A", "B", "C", "D", "E", "F", "G", "N", "R", "X"} |->
        CASE c = "A" -> "a" [] c = "B" -> "b" [] c = "C" -> "c"
          [] c = "D" -> "d" [] c = "E" -> "e" [] c = "F" -> "f"
          [] c = "G" -> "g" [] c = "N" -> "n" [] c = "R" -> "r"
          [] c = "X" -> "x"]

\* String.prototype.toLowerCase
toLowerCase(s) ==
    [i \in 1..Len(s) |->
        IF s[i] \in DOMAIN UpperToLower THEN UpperToLower[s[i]] ELSE s[i]]

\* The first position at or after i whose character is not in set (Len(s)+1 if none).
RECURSIVE SkipWhile(_, _, _)
SkipWhile(s, i, set) ==
    IF i <= Len(s) /\ s[i] \in set THEN SkipWhile(s, i + 1, set) ELSE i

\* The last position at or before i whose character is not in set (0 if none).
RECURSIVE SkipBack(_, _, _)
SkipBack(s, i, set) ==
    IF i >= 1 /\ s[i] \in set THEN SkipBack(s, i - 1, set) ELSE i

\* String.prototype.trim
trim(s) ==
    LET first == SkipWhile(s, 1, WhiteSpace)
        last == SkipBack(s, Len(s), WhiteSpace)
    IN  IF first > last THEN <<>> ELSE SubSeq(s, first, last)

\* String.prototype.slice(from, to) with 0-based, end-exclusive positions.
slice(s, from, to) == SubSeq(s, from + 1, Min2(to, Len(s)))

\* The value of the digits s[i..j-1] read in the given radix.
RECURSIVE DigitsValue(_, _, _, _)
DigitsValue(s, i, j, radix) ==
    IF j <= i THEN 0
    ELSE DigitsValue(s, i, j - 1, radix) * radix + DigitValue(s[j - 1])

\* parseInt(s, radix) for radix 16 and for no radix (10 here): leading white
\* space is skipped, a sign is read, a "0x" prefix is dropped and makes the
\* radix 16, then the longest run of digits is read; no digit gives NaN.
parseInt(s, radix) ==
    LET i0 == SkipWhile(s, 1, WhiteSpace)
        signed == i0 <= Len(s) /\ s[i0] \in {"+", "-"}
        i1 == IF signed THEN i0 + 1 ELSE i0
        prefixed == /\ i1 + 1 <= Len(s)
                    /\ s[i1] = "0"
                    /\ s[i1 + 1] \in {"x", "X"}
        i2 == IF prefixed THEN i1 + 2 ELSE i1
        digits == IF radix = 16 \/ prefixed
                  THEN HexDigitChars \cup {"A", "B", "C", "D", "E", "F"}
                  ELSE DecDigitChars
        base == IF prefixed THEN 16 ELSE radix
        i3 == SkipWhile(s, i2, digits)
        magnitude == DigitsValue(toLowerCase(s), i2, i3, base)
    IN  IF i3 = i2 THEN NaN
        ELSE IF signed /\ s[i0] = "-" THEN -magnitude ELSE magnitude

(***************************************************************************)
(* parseColor                                                              *)
(***************************************************************************)

Rgb(r, g, b) == [r |-> r, g |-> g, b |-> b]

NoRgb == Rgb(NaN, NaN, NaN)

\* A channel of the colour is NaN: every sum, product, Math.max and Math.min
\* it enters is NaN and every comparison with it is false.
AnyNaN(rgb) == NaN \in {rgb.r, rgb.g, rgb.b}

Returned(rgb) == [ok |-> TRUE, rgb |-> rgb, error |-> "", text |-> <<>>]

\* throw new Error(`${what}: ${text}`)
Thrown(what, text) == [ok |-> FALSE, rgb |-> NoRgb, error |-> what, text |-> text]

\* One attempt of /rgba?\((\d+),\s*(\d+),\s*(\d+)(?:,\s*[\d.]+)?\)/ at position i:
\* <<TRUE, r, g, b, last>> with the three captured digit runs and the position
\* of the last character matched, or <<FALSE>>.  Every
\* quantifier is followed by a character outside its class, so the greedy run
\* is the only one that can match.
MatchRgbAt(s, i) ==
    LET n == Len(s)
        At(k, c) == k <= n /\ s[k] = c
        j0 == IF At(i + 3, "a") /\ At(i + 4, "(") THEN i + 4 ELSE i + 3
        r1 == j0 + 1
        r2 == SkipWhile(s, r1, DecDigitChars)
        g1 == SkipWhile(s, r2 + 1, WhiteSpace)
        g2 == SkipWhile(s, g1, DecDigitChars)
        b1 == SkipWhile(s, g2 + 1, WhiteSpace)
        b2 == SkipWhile(s, b1, DecDigitChars)
        a1 == SkipWhile(s, b2 + 1, WhiteSpace)
        a2 == SkipWhile(s, a1, DecDigitChars \cup {"."})
        close == IF At(b2, ",") /\ a2 > a1 THEN a2 ELSE b2
    IN  IF /\ At(i, "r") /\ At(i + 1, "g") /\ At(i + 2, "b") /\ At(j0, "(")
           /\ r2 > r1 /\ At(r2, ",")
           /\ g2 > g1 /\ At(g2, ",")
           /\ b2 > b1
           /\ At(close, ")")
        THEN <<TRUE, SubSeq(s, r1, r2 - 1), SubSeq(s, g1, g2 - 1),
               SubSeq(s, b1, b2 - 1), close>>
        ELSE <<FALSE>>

\* String.prototype.match with the (unanchored) pattern: the leftmost match.
RECURSIVE MatchRgbFrom(_, _)
MatchRgbFrom(s, i) ==
    IF i > Len(s) THEN <<FALSE>>
    ELSE IF MatchRgbAt(s, i)[1] THEN MatchRgbAt(s, i)
    ELSE MatchRgbFrom(s, i + 1)

rgbMatch(s) == MatchRgbFrom(s, 1)

parseColor(text) ==
    LET normalized == toLowerCase(trim(text))
        hex == slice(normalized, 1, Len(normalized))
        m == rgbMatch(normalized)
    IN  IF Len(normalized) >= 1 /\ normalized[1] = "#"
        THEN IF Len(hex) = 3
             THEN Returned(Rgb(parseInt(<<hex[1], hex[1]>>, 16),
                               parseInt(<<hex[2], hex[2]>>, 16),
                               parseInt(<<hex[3], hex[3]>>, 16)))
             ELSE IF Len(hex) = 6
             THEN Returned(Rgb(parseInt(slice(hex, 0, 2), 16),
                               parseInt(slice(hex, 2, 4), 16),
                               parseInt(slice(hex, 4, 6), 16)))
             ELSE Thrown("Invalid hex color", text)
        ELSE IF m[1]
             THEN Returned(Rgb(parseInt(m[2], 10), parseInt(m[3], 10),
                               parseInt(m[4], 10)))
             ELSE Thrown("Unsupported color format", text)

(***************************************************************************)
(* rgbToHex                                                                *)
(***************************************************************************)

\* The hexadecimal digits of n > 0, most significant first.
RECURSIVE HexOf(_)
HexOf(n) ==
    IF n = 0 THEN <<>> ELSE Append(HexOf(n \div 16), HexDigits[(n % 16) + 1])

\* Number.prototype.toString(16)
toString16(n) ==
    IF n = NaN THEN <<"N", "a", "N">>
    ELSE IF n = 0 THEN <<"0">>
    ELSE IF n < 0 THEN <<"-">> \o HexOf(-n)
    ELSE HexOf(n)

\* String.prototype.padStart(2, '0')
padStart2(s) == IF Len(s) = 0 THEN <<"0", "0">>
                ELSE IF Len(s) = 1 THEN <<"0">> \o s
                ELSE s

rgbToHex(rgb) ==
    <<"#">> \o padStart2(toString16(rgb.r))
            \o padStart2(toString16(rgb.g))
            \o padStart2(toString16(rgb.b))

(***************************************************************************)
(* rgbToHsl and hslToRgb                                                   *)
(*                                                                         *)
(* An HSL value holds h in degrees, s in percent and l in units of         *)
(* 1/LUnit percent: the search halves the lightness interval [0, 100]      *)
(* seven times, so every lightness it computes is a multiple of 100/128.   *)
(***************************************************************************)

LUnit == 128

Hsl(h, s, l) == [h |-> h, s |-> s, l |-> l]

Max3(a, b, c) == Max2(a, Max2(b, c))

Min3(a, b, c) == Min2(a, Min2(b, c))

\* HueDegrees without the wrap of a negative hue (the "+ 6" when g < b).
HueDegreesNoWrap(r, g, b, max, diff) ==
    IF max = r THEN <<60 * (g - b), diff>>
    ELSE IF max = g THEN <<60 * (b - r) + 120 * diff, diff>>
    ELSE <<60 * (r - g) + 240 * diff, diff>>

\* h * 360 before rounding, as the fraction <<numerator, denominator>>: the
\* case of the switch on max that matches first, r before g before b.
HueDegrees(r, g, b, max, diff) ==
    IF max = r
    THEN <<60 * (g - b) + (IF g < b THEN 360 * diff ELSE 0), diff>>
    ELSE IF max = g
    THEN <<60 * (b - r) + 120 * diff, diff>>
    ELSE <<60 * (r - g) + 240 * diff, diff>>

rgbToHsl(rgb) ==
    LET max == Max3(rgb.r, rgb.g, rgb.b)
        min == Min3(rgb.r, rgb.g, rgb.b)
        diff == max - min
        sum == max + min
        \* l = (max + min) / 2 with max, min in 255ths; l > 0.5 iff sum > 255
        l == MathRound(100 * sum, 510)
        s == IF sum > 255 THEN MathRound(100 * diff, 510 - sum)
                          ELSE MathRound(100 * diff, sum)
        hue == HueDegrees(rgb.r, rgb.g, rgb.b, max, diff)
    IN  \* with a NaN channel max and min are NaN: s and l are NaN, and h
        \* stays 0 because no case of the switch on max matches
        IF AnyNaN(rgb) THEN Hsl(0, NaN, NaN)
        ELSE IF diff = 0 THEN Hsl(0, 0, l * LUnit)
        ELSE Hsl(MathRound(hue[1], hue[2]), s, l * LUnit)

\* hue2rgb without the branch for 1/2 <= t < 2/3.
hue2rgbNoFallingEdge(p, q, t) ==
    LET t1 == IF t < 0 THEN t + 360 ELSE t
        t2 == IF t1 > 360 THEN t1 - 360 ELSE t1
    IN  IF t2 < 60 THEN 60 * p + (q - p) * t2
        ELSE IF t2 < 180 THEN 60 * q
        ELSE 60 * p

\* hue2rgb(p, q, t) with t in 360ths and p, q in D-ths, the result in (60*D)-ths.
hue2rgb(p, q, t) ==
    LET t1 == IF t < 0 THEN t + 360 ELSE t
        t2 == IF t1 > 360 THEN t1 - 360 ELSE t1
    IN  IF t2 < 60 THEN 60 * p + (q - p) * t2
        ELSE IF t2 < 180 THEN 60 * q
        ELSE IF t2 < 240 THEN 60 * p + (q - p) * (240 - t2)
        ELSE 60 * p

hslToRgb(hsl) ==
    LET full == 100 * LUnit              \* l = 1
        D == 100 * full                  \* common denominator of p and q
        q == IF 2 * hsl.l < full
             THEN hsl.l * (100 + hsl.s)
             ELSE 100 * hsl.l + full * hsl.s - hsl.l * hsl.s
        p == 2 * 100 * hsl.l - q
        \* Math.round(x * 255) for x = n / (60 * D), 255 / 60 reduced to 17 / 4
        channel(n) == MathRound(17 * n, 4 * D)
        grey == MathRound(255 * hsl.l, full)
    IN  \* a NaN saturation makes p and q, and so the three channels, NaN
        IF hsl.s = NaN THEN NoRgb
        ELSE IF hsl.s = 0 THEN Rgb(grey, grey, grey)
        ELSE Rgb(channel(hue2rgb(p, q, hsl.h + 120)),
                 channel(hue2rgb(p, q, hsl.h)),
                 channel(hue2rgb(p, q, hsl.h - 120)))

(***************************************************************************)
(* Relative luminance and contrast ratio                                   *)
(*                                                                         *)
(* A luminance is held in units of 1/LumOne.                               *)
(***************************************************************************)

LumOne == 100000

\* Math.pow((c / 255 + 0.055) / 1.055, 2.4) for c = 0..255, in units of
\* 1/LumOne, rounded to the nearest unit.
GammaExpanded ==
    <<83, 98, 115, 133, 152, 173, 196, 220,
     246, 274, 303, 335, 368, 402, 439, 478,
     518, 561, 605, 651, 700, 750, 802, 857,
     913, 972, 1033, 1096, 1161, 1229, 1298, 1370,
     1444, 1521, 1600, 1681, 1764, 1850, 1938, 2029,
     2122, 2217, 2315, 2416, 2519, 2624, 2732, 2843,
     2956, 3071, 3190, 3310, 3434, 3560, 3689, 3820,
     3955, 4092, 4231, 4374, 4519, 4667, 4817, 4971,
     5127, 5286, 5448, 5613, 5781, 5951, 6125, 6301,
     6480, 6663, 6848, 7036, 7227, 7421, 7619, 7819,
     8022, 8228, 8438, 8650, 8866, 9084, 9306, 9531,
     9759, 9990, 10224, 10462, 10702, 10946, 11193, 11444,
     11697, 11954, 12214, 12477, 12744, 13014, 13287, 13563,
     13843, 14126, 14413, 14703, 14996, 15293, 15593, 15896,
     16203, 16513, 16827, 17144, 17465, 17789, 18116, 18447,
     18782, 19120, 19462, 19807, 20156, 20508, 20864, 21223,
     21586, 21953, 22323, 22697, 23074, 23455, 23840, 24228,
     24620, 25016, 25415, 25818, 26225, 26636, 27050, 27468,
     27889, 28315, 28744, 29177, 29614, 30054, 30499, 30947,
     31399, 31855, 32314, 32778, 33245, 33716, 34191, 34670,
     35153, 35640, 36131, 36625, 37124, 37626, 38133, 38643,
     39157, 39676, 40198, 40724, 41254, 41789, 42327, 42869,
     43415, 43966, 44520, 45079, 45641, 46208, 46778, 47353,
     47932, 48515, 49102, 49693, 50289, 50888, 51492, 52100,
     52712, 53328, 53948, 54572, 55201, 55834, 56471, 57112,
     57758, 58408, 59062, 59720, 60383, 61050, 61721, 62396,
     63076, 63760, 64448, 65141, 65837, 66539, 67244, 67954,
     68669, 69387, 70110, 70838, 71569, 72306, 73046, 73791,
     74540, 75294, 76052, 76815, 77582, 78354, 79130, 79910,
     80695, 81485, 82279, 83077, 83880, 84687, 85499, 86316,
     87137, 87962, 88792, 89627, 90466, 91310, 92158, 93011,
     93869, 94731, 95597, 96469, 97345, 98225, 99110, 100000>>

\* A channel taken as it is, c / 255, without the gamma expansion.
LinearizedNoGamma(c) == MathRound(c * LumOne, 255)

\* One channel of getRelativeLuminance: c / 255 <= 0.03928 takes the linear
\* branch c / 255 / 12.92, any other value the power branch.
Linearized(c) ==
    IF 100000 * c <= 3928 * 255
    THEN MathRound(c * LumOne * 100, 255 * 1292)
    ELSE GammaExpanded[c + 1]

\* getRelativeLuminance with two digits of the green weight exchanged.
getRelativeLuminanceMistyped(rgb) ==
    MathRound(2126 * Linearized(rgb.r) + 7512 * Linearized(rgb.g)
                + 722 * Linearized(rgb.b), 10000)

\* The weighted sum is NaN when a channel is.
getRelativeLuminance(rgb) ==
    IF AnyNaN(rgb) THEN NaN
    ELSE MathRound(2126 * Linearized(rgb.r) + 7152 * Linearized(rgb.g)
                     + 722 * Linearized(rgb.b), 10000)

\* 0.005 in units of 1/LumOne
FlareTenth == LumOne \div 200

\* 0.05 in units of 1/LumOne
Flare == LumOne \div 20

\* The ratio (lighter + 0.05) / (darker + 0.05) as a fraction.
Ratio(num, den) == [num |-> num, den |-> den]

\* The ratio of two luminances one of which is NaN.
NaNRatio == Ratio(NaN, 1)

\* getContrastRatio that takes the first colour for the lighter one.
getContrastRatioUnordered(color1, color2) ==
    Ratio(getRelativeLuminance(color1) + Flare, getRelativeLuminance(color2) + Flare)

getContrastRatio(color1, color2) ==
    LET l1 == getRelativeLuminance(color1)
        l2 == getRelativeLuminance(color2)
        lighter == Max2(l1, l2)
        darker == Min2(l1, l2)
    IN  IF l1 = NaN \/ l2 = NaN THEN NaNRatio
        ELSE Ratio(lighter + Flare, darker + Flare)

\* A target ratio is held in units of 1/RatioUnit (4.5 is 1800): a caller may
\* ask for a target finer than the two decimals a ratio is reported with.
RatioUnit == 400

\* ratio >= target (false for a NaN ratio)
RatioAtLeast(ratio, target) ==
    ratio # NaNRatio /\ RatioUnit * ratio.num >= target * ratio.den

\* ratio <= target (false for a NaN ratio)
RatioAtMost(ratio, target) ==
    ratio # NaNRatio /\ RatioUnit * ratio.num <= target * ratio.den

(***************************************************************************)
(* adjustLightness and findAccessibleColor                                 *)
(***************************************************************************)

\* adjustLightness that drops the saturation.
adjustLightnessGrey(rgb, targetLightness) ==
    LET hsl == rgbToHsl(rgb)
    IN  hslToRgb(Hsl(hsl.h, 0, Max2(0, Min2(100 * LUnit, targetLightness))))

\* adjustLightness that cuts the lightness down to a whole percent.
adjustLightnessWholePercent(rgb, targetLightness) ==
    LET hsl == rgbToHsl(rgb)
        clamped == Max2(0, Min2(100 * LUnit, targetLightness))
    IN  hslToRgb(Hsl(hsl.h, hsl.s, (clamped \div LUnit) * LUnit))

\* targetLightness in units of 1/LUnit percent
adjustLightness(rgb, targetLightness) ==
    LET hsl == rgbToHsl(rgb)
    IN  hslToRgb(Hsl(hsl.h, hsl.s, Max2(0, Min2(100 * LUnit, targetLightness))))

maxIterations == 20

colorToAdjust(fg, bg, adjustFg) == IF adjustFg THEN fg ELSE bg

fixedColor(fg, bg, adjustFg) == IF adjustFg THEN bg ELSE fg

\* RatioOfAdjusted that divides the luminance of the colour given first by
\* the luminance of the colour given second.
RatioOfAdjustedInOrder(adjusted, fixed, adjustFg) ==
    IF adjustFg THEN getContrastRatioUnordered(adjusted, fixed)
                ELSE getContrastRatioUnordered(fixed, adjusted)

\* The ratio of an adjusted colour against the fixed one, the foreground
\* being the first argument of getContrastRatio.
RatioOfAdjusted(adjusted, fixed, adjustFg) ==
    IF adjustFg THEN getContrastRatio(adjusted, fixed)
                ELSE getContrastRatio(fixed, adjusted)

\* The loop condition without the cap on the iterations and with an interval
\* that has to close entirely.
LoopContinuesUncapped(lo, hi, n) == hi - lo > 0

\* while (iterations < maxIterations && maxL - minL > 1)
LoopContinues(lo, hi, n) == n < maxIterations /\ hi - lo > LUnit

\* A midpoint taken at a third of the interval.
MidLThird(lo, hi) == lo + (hi - lo) \div 3

\* const midL = (minL + maxL) / 2
MidL(lo, hi) == (lo + hi) \div 2

\* ratio >= targetRatio at the midpoint
MidMeets(subject, fixed, target, adjustFg, lo, hi) ==
    RatioAtLeast(RatioOfAdjusted(adjustLightness(subject, MidL(lo, hi)), fixed,
                                 adjustFg), target)

\* NarrowOnMeet that moves the bound on the side of the original lightness.
NarrowOnMeetAway(subject, lo, hi) ==
    IF MidL(lo, hi) < rgbToHsl(subject).l THEN <<lo, MidL(lo, hi)>>
                                          ELSE <<MidL(lo, hi), hi>>

\* NarrowOnMeet that closes the interval around the midpoint from both sides.
NarrowOnMeetBothBounds(subject, lo, hi) ==
    <<MidL(lo, MidL(lo, hi)), MidL(MidL(lo, hi), hi)>>

\* The new <<minL, maxL>> when the midpoint meets the target.
NarrowOnMeet(subject, lo, hi) ==
    IF MidL(lo, hi) < rgbToHsl(subject).l THEN <<MidL(lo, hi), hi>>
                                          ELSE <<lo, MidL(lo, hi)>>

\* NarrowOnFail that compares the luminance of the midpoint colour, not of
\* the subject, with the fixed colour's.
NarrowOnFailByMidpoint(subject, fixed, lo, hi) ==
    IF getRelativeLuminance(adjustLightness(subject, MidL(lo, hi)))
          > getRelativeLuminance(fixed)
    THEN <<MidL(lo, hi), hi>>
    ELSE <<lo, MidL(lo, hi)>>

\* The new <<minL, maxL>> when the midpoint does not meet the target.
NarrowOnFail(subject, fixed, lo, hi) ==
    IF /\ getRelativeLuminance(subject) # NaN
       /\ getRelativeLuminance(fixed) # NaN
       /\ getRelativeLuminance(subject) > getRelativeLuminance(fixed)
    THEN <<MidL(lo, hi), hi>>
    ELSE <<lo, MidL(lo, hi)>>

Found(rgb, lightness) == [found |-> TRUE, rgb |-> rgb, lightness |-> lightness]

NoColor == [found |-> FALSE, rgb |-> Rgb(0, 0, 0), lightness |-> 0]

\* TestBoundaries that returns the boundary closest to the original as soon
\* as one of the two meets the target.
TestBoundariesEither(subject, fixed, target, adjustFg, lo, hi) ==
    LET lightAdjusted == adjustLightness(subject, hi)
        darkAdjusted == adjustLightness(subject, lo)
        lightOk == RatioAtLeast(RatioOfAdjusted(lightAdjusted, fixed, adjustFg), target)
        darkOk == RatioAtLeast(RatioOfAdjusted(darkAdjusted, fixed, adjustFg), target)
        originalHsl == rgbToHsl(subject)
    IN  IF lightOk \/ darkOk
        THEN IF Abs(hi - originalHsl.l) < Abs(lo - originalHsl.l)
             THEN Found(lightAdjusted, hi) ELSE Found(darkAdjusted, lo)
        ELSE NoColor

\* TestBoundaries that prefers the light boundary whenever it meets the target.
TestBoundariesLightFirst(subject, fixed, target, adjustFg, lo, hi) ==
    LET lightAdjusted == adjustLightness(subject, hi)
        darkAdjusted == adjustLightness(subject, lo)
        lightOk == RatioAtLeast(RatioOfAdjusted(lightAdjusted, fixed, adjustFg), target)
        darkOk == RatioAtLeast(RatioOfAdjusted(darkAdjusted, fixed, adjustFg), target)
    IN  IF lightOk THEN Found(lightAdjusted, hi)
        ELSE IF darkOk THEN Found(darkAdjusted, lo)
        ELSE NoColor

\* "Test both boundaries": what findAccessibleColor returns after the loop;
\* lightness records which boundary the returned colour was made from.
TestBoundaries(subject, fixed, target, adjustFg, lo, hi) ==
    LET lightAdjusted == adjustLightness(subject, hi)
        darkAdjusted == adjustLightness(subject, lo)
        lightOk == RatioAtLeast(RatioOfAdjusted(lightAdjusted, fixed, adjustFg), target)
        darkOk == RatioAtLeast(RatioOfAdjusted(darkAdjusted, fixed, adjustFg), target)
        originalHsl == rgbToHsl(subject)
        lightDiff == Abs(hi - originalHsl.l)
        darkDiff == Abs(lo - originalHsl.l)
    IN  IF lightOk /\ darkOk
        THEN IF lightDiff < darkDiff THEN Found(lightAdjusted, hi)
                                     ELSE Found(darkAdjusted, lo)
        ELSE IF lightOk THEN Found(lightAdjusted, hi)
        ELSE IF darkOk THEN Found(darkAdjusted, lo)
        ELSE NoColor

\* The loop, from <<minL, maxL, iterations>> to its values at the exit.
RECURSIVE SearchLoop(_, _, _, _, _, _, _)
SearchLoop(subject, fixed, target, adjustFg, lo, hi, n) ==
    IF ~LoopContinues(lo, hi, n) THEN <<lo, hi, n>>
    ELSE LET next == IF MidMeets(subject, fixed, target, adjustFg, lo, hi)
                     THEN NarrowOnMeet(subject, lo, hi)
                     ELSE NarrowOnFail(subject, fixed, lo, hi)
         IN  SearchLoop(subject, fixed, target, adjustFg, next[1], next[2], n + 1)

\* findAccessibleColor that returns the upper boundary without testing it.
findAccessibleColorUntested(fg, bg, target, adjustFg) ==
    LET subject == colorToAdjust(fg, bg, adjustFg)
        fixed == fixedColor(fg, bg, adjustFg)
        end == SearchLoop(subject, fixed, target, adjustFg, 0, 100 * LUnit, 0)
    IN  Found(adjustLightness(subject, end[2]), end[2])

findAccessibleColor(fg, bg, target, adjustFg) ==
    LET subject == colorToAdjust(fg, bg, adjustFg)
        fixed == fixedColor(fg, bg, adjustFg)
        end == SearchLoop(subject, fixed, target, adjustFg, 0, 100 * LUnit, 0)
    IN  TestBoundaries(subject, fixed, target, adjustFg, end[1], end[2])

(***************************************************************************)
(* getContrastRequirements, calculateContrast and analyzeColorPair         *)
(*                                                                         *)
(* A ratio that is reported (Math.round(ratio * 100) / 100) is held in     *)
(* hundredths.                                                             *)
(***************************************************************************)

ContentTypes == {"normal-text", "large-text", "ui-component"}

WCAGLevels == {"AA", "AAA"}

\* An argument the caller left out.
Undefined == "undefined"

\* A parameter with a default value.
WithDefault(arg, default) == IF arg = Undefined THEN default ELSE arg

\* The object literal of getContrastRequirements: 4.5 and 7.0, 3.0 and 4.5,
\* 3.0 and 3.0, in units of 1/RatioUnit.
RequirementsLiteral ==
    [c \in ContentTypes |->
        CASE c = "normal-text" -> [AA |-> 1800, AAA |-> 2800]
          [] c = "large-text" -> [AA |-> 1200, AAA |-> 1800]
          [] c = "ui-component" -> [AA |-> 1200, AAA |-> 1200]]

\* getContrastRequirements that hands out one shared table: the one the
\* caller holds, once it has been handed out.
getContrastRequirementsShared ==
    IF handedTable = <<>> THEN RequirementsLiteral ELSE handedTable[1]

\* Every call evaluates the literal anew.
getContrastRequirements == RequirementsLiteral

getWCAGGuideline(contentType) ==
    IF contentType \in {"normal-text", "large-text"}
    THEN "1.4.3 Contrast (Minimum)"
    ELSE "1.4.11 Non-text Contrast"

Contrast(ratio, foregroundRgb, backgroundRgb) ==
    [ok |-> TRUE, error |-> "", text |-> <<>>, ratio |-> ratio,
     foregroundRgb |-> foregroundRgb, backgroundRgb |-> backgroundRgb]

ContrastThrown(thrown) ==
    [ok |-> FALSE, error |-> thrown.error, text |-> thrown.text,
     ratio |-> Ratio(1, 1), foregroundRgb |-> NoRgb, backgroundRgb |-> NoRgb]

\* calculateContrast once both texts went through parseColor: the
\* foreground is parsed first, so its error is the one thrown.
ContrastOfParsed(foregroundRgb, backgroundRgb) ==
    IF ~foregroundRgb.ok THEN ContrastThrown(foregroundRgb)
    ELSE IF ~backgroundRgb.ok THEN ContrastThrown(backgroundRgb)
    ELSE Contrast(getContrastRatio(foregroundRgb.rgb, backgroundRgb.rgb),
                  foregroundRgb.rgb, backgroundRgb.rgb)

calculateContrast(fgT, bgT) ==
    ContrastOfParsed(parseColor(fgT), parseColor(bgT))

\* Math.round(ratio * 100) / 100, in hundredths
RoundedRatio(ratio) ==
    IF ratio = NaNRatio THEN NaN ELSE MathRound(100 * ratio.num, ratio.den)

\* reported >= target, for a reported ratio in hundredths
ReportedAtLeast(reported, target) == RatioUnit * reported >= 100 * target

Passes(normalText, largeText, uiComponent) ==
    [normalText |-> normalText, largeText |-> largeText,
     uiComponent |-> uiComponent]

ContrastRequirement(level, contentType, minimumRatio, guideline) ==
    [level |-> level, contentType |-> contentType,
     minimumRatio |-> minimumRatio, guideline |-> guideline]

ContrastAnalysis(fgHex, bgHex, ratio, passes, requirement, meetsRequirement) ==
    [ok |-> TRUE, error |-> "", text |-> <<>>,
     foreground |-> fgHex, background |-> bgHex, ratio |-> ratio,
     passes |-> passes, requirement |-> requirement,
     meetsRequirement |-> meetsRequirement]

AnalysisThrown(thrown) ==
    [ok |-> FALSE, error |-> thrown.error, text |-> thrown.text,
     foreground |-> <<>>, background |-> <<>>, ratio |-> 0,
     passes |-> Passes(FALSE, FALSE, FALSE),
     requirement |-> ContrastRequirement("", "", 0, ""),
     meetsRequirement |-> FALSE]

\* AnalysisOfContrast whose three pass flags are taken at the requested level.
AnalysisOfContrastAtLevel(contrast, contentType, level) ==
    LET requirements == getContrastRequirements
        passes == Passes(
            RatioAtLeast(contrast.ratio, requirements["normal-text"][level]),
            RatioAtLeast(contrast.ratio, requirements["large-text"][level]),
            RatioAtLeast(contrast.ratio, requirements["ui-component"][level]))
        minimumRatio == requirements[contentType][level]
        requirement == ContrastRequirement(level, contentType, minimumRatio,
                                           getWCAGGuideline(contentType))
    IN  IF ~contrast.ok THEN AnalysisThrown(contrast)
        ELSE ContrastAnalysis(rgbToHex(contrast.foregroundRgb),
                              rgbToHex(contrast.backgroundRgb),
                              RoundedRatio(contrast.ratio), passes, requirement,
                              RatioAtLeast(contrast.ratio, minimumRatio))

\* AnalysisOfContrast that compares the ratio it reports, rounded to two
\* decimals, with the minimum.
AnalysisOfContrastRounded(contrast, contentType, level) ==
    LET requirements == getContrastRequirements
        passes == Passes(
            RatioAtLeast(contrast.ratio, requirements["normal-text"].AA),
            RatioAtLeast(contrast.ratio, requirements["large-text"].AA),
            RatioAtLeast(contrast.ratio, requirements["ui-component"].AA))
        minimumRatio == requirements[contentType][level]
        requirement == ContrastRequirement(level, contentType, minimumRatio,
                                           getWCAGGuideline(contentType))
    IN  IF ~contrast.ok THEN AnalysisThrown(contrast)
        ELSE ContrastAnalysis(rgbToHex(contrast.foregroundRgb),
                              rgbToHex(contrast.backgroundRgb),
                              RoundedRatio(contrast.ratio), passes, requirement,
                              ReportedAtLeast(RoundedRatio(contrast.ratio), minimumRatio))

\* analyzeColorPair from the result of calculateContrast on.
AnalysisOfContrast(contrast, contentType, level) ==
    LET requirements == getContrastRequirements
        passes == Passes(
            RatioAtLeast(contrast.ratio, requirements["normal-text"].AA),
            RatioAtLeast(contrast.ratio, requirements["large-text"].AA),
            RatioAtLeast(contrast.ratio, requirements["ui-component"].AA))
        minimumRatio == requirements[contentType][level]
        requirement == ContrastRequirement(level, contentType, minimumRatio,
                                           getWCAGGuideline(contentType))
    IN  IF ~contrast.ok THEN AnalysisThrown(contrast)
        ELSE ContrastAnalysis(rgbToHex(contrast.foregroundRgb),
                              rgbToHex(contrast.backgroundRgb),
                              RoundedRatio(contrast.ratio), passes, requirement,
                              RatioAtLeast(contrast.ratio, minimumRatio))

analyzeColorPair(fgT, bgT, contentTypeArg, levelArg) ==
    AnalysisOfContrast(calculateContrast(fgT, bgT),
                       WithDefault(contentTypeArg, "normal-text"),
                       WithDefault(levelArg, "AA"))

(***************************************************************************)
(* suggestAccessibleColors                                                 *)
(***************************************************************************)

ColorSuggestion(colorText, ratio, adjustedProperty) ==
    [color |-> colorText, ratio |-> ratio, adjustedProperty |-> adjustedProperty]

Suggested(list) == [ok |-> TRUE, error |-> "", text |-> <<>>, list |-> list]

SuggestThrown(thrown) ==
    [ok |-> FALSE, error |-> thrown.error, text |-> thrown.text, list |-> <<>>]

\* Math.abs(suggestion.ratio - targetRatio), in units of 1/(100 * RatioUnit)
RatioDistance(suggestion, target) ==
    Abs(RatioUnit * suggestion.ratio - 100 * target)

\* A sort that leaves the suggestions in the order they were pushed.
SortKeepsOrder(list, target) == list

\* Array.prototype.sort with the comparator aDiff - bDiff, for the lists of
\* at most two suggestions the function builds; equal distances keep their
\* order.
SortByDistance(list, target) ==
    IF Len(list) = 2
       /\ RatioDistance(list[2], target) < RatioDistance(list[1], target)
    THEN <<list[2], list[1]>>
    ELSE list

\* ForegroundSuggestion without the test of adjustedFg: a suggestion is made
\* of whatever the search returned.
ForegroundSuggestionUnguarded(adjustedFg, backgroundRgb) ==
    <<ColorSuggestion(rgbToHex(adjustedFg.rgb),
                      RoundedRatio(getContrastRatio(adjustedFg.rgb,
                                                    backgroundRgb)),
                      "foreground")>>

\* "Try adjusting foreground": the suggestion pushed for what
\* findAccessibleColor returned, none for null.
ForegroundSuggestion(adjustedFg, backgroundRgb) ==
    IF adjustedFg.found
    THEN <<ColorSuggestion(rgbToHex(adjustedFg.rgb),
                           RoundedRatio(getContrastRatio(adjustedFg.rgb,
                                                         backgroundRgb)),
                           "foreground")>>
    ELSE <<>>

\* "Try adjusting background"
BackgroundSuggestion(adjustedBg, foregroundRgb) ==
    IF adjustedBg.found
    THEN <<ColorSuggestion(rgbToHex(adjustedBg.rgb),
                           RoundedRatio(getContrastRatio(foregroundRgb,
                                                         adjustedBg.rgb)),
                           "background")>>
    ELSE <<>>

\* SuggestionsOfParsed that adjusts the side it was asked to preserve.
SuggestionsOfParsedPreservedSide(foregroundRgb, backgroundRgb, target, preserve) ==
    IF ~foregroundRgb.ok THEN SuggestThrown(foregroundRgb)
    ELSE IF ~backgroundRgb.ok THEN SuggestThrown(backgroundRgb)
    ELSE Suggested(SortByDistance(
             (IF preserve \in {"foreground", "both"}
              THEN ForegroundSuggestion(
                       findAccessibleColor(foregroundRgb.rgb, backgroundRgb.rgb,
                                           target, TRUE), backgroundRgb.rgb)
              ELSE <<>>)
             \o (IF preserve \in {"background", "both"}
                 THEN BackgroundSuggestion(
                          findAccessibleColor(foregroundRgb.rgb, backgroundRgb.rgb,
                                              target, FALSE), foregroundRgb.rgb)
                 ELSE <<>>),
             target))

\* suggestAccessibleColors once both texts went through parseColor.
SuggestionsOfParsed(foregroundRgb, backgroundRgb, target, preserve) ==
    IF ~foregroundRgb.ok THEN SuggestThrown(foregroundRgb)
    ELSE IF ~backgroundRgb.ok THEN SuggestThrown(backgroundRgb)
    ELSE Suggested(SortByDistance(
             (IF preserve \in {"background", "both"}
              THEN ForegroundSuggestion(
                       findAccessibleColor(foregroundRgb.rgb, backgroundRgb.rgb,
                                           target, TRUE), backgroundRgb.rgb)
              ELSE <<>>)
             \o (IF preserve \in {"foreground", "both"}
                 THEN BackgroundSuggestion(
                          findAccessibleColor(foregroundRgb.rgb, backgroundRgb.rgb,
                                              target, FALSE), foregroundRgb.rgb)
                 ELSE <<>>),
             target))

suggestAccessibleColors(fgT, bgT, target, preserveArg) ==
    SuggestionsOfParsed(parseColor(fgT), parseColor(bgT), target,
                        WithDefault(preserveArg, "both"))

(***************************************************************************)
(* The MCP server's handler of tool calls                                  *)
(***************************************************************************)

ToolNames ==
    {"calculate_contrast_ratio", "analyze_color_pair", "suggest_accessible_color"}

\* request.params: the name of the tool and the arguments it reads.
ToolRequest(name, fgT, bgT, contentType, level, target, preserve) ==
    [name |-> name,
     arguments |-> [foreground |-> fgT, background |-> bgT,
                    contentType |-> contentType, level |-> level,
                    targetRatio |-> target, preserve |-> preserve]]

\* A result without isError; payload is the object JSON.stringify writes
\* (a NaN ratio is written as null).
ToolSuccess(payload) == [isError |-> FALSE, payload |-> payload]

\* The result of the catch block: { error: errorMessage }, isError: true.
\* The message is `${error}: ${text}`.
ToolError(error, text) ==
    [isError |-> TRUE, payload |-> [error |-> error, text |-> text]]

\* case 'calculate_contrast_ratio', from the result of calculateContrast on
ContrastRatioResult(fgT, bgT, contrast) ==
    IF ~contrast.ok THEN ToolError(contrast.error, contrast.text)
    ELSE ToolSuccess([foreground |-> fgT, background |-> bgT,
                      ratio |-> RoundedRatio(contrast.ratio)])

\* case 'analyze_color_pair', from the result of analyzeColorPair on
ColorPairResult(returned) ==
    IF ~returned.ok THEN ToolError(returned.error, returned.text)
    ELSE ToolSuccess(returned)

\* case 'suggest_accessible_color', from the result of
\* suggestAccessibleColors on
SuggestColorResult(fgT, bgT, target, returned) ==
    IF ~returned.ok THEN ToolError(returned.error, returned.text)
    ELSE ToolSuccess([original |-> [foreground |-> fgT, background |-> bgT],
                      targetRatio |-> target,
                      suggestions |-> returned.list])

\* The handler of CallToolRequestSchema: the switch on the tool's name inside
\* try, every error thrown there turned into an error result by catch.
CallTool(name, args) ==
    CASE name = "calculate_contrast_ratio" ->
             ContrastRatioResult(args.foreground, args.background,
                                 calculateContrast(args.foreground,
                                                   args.background))
      [] name = "analyze_color_pair" ->
             ColorPairResult(
                 analyzeColorPair(args.foreground, args.background,
                                  WithDefault(args.contentType, "normal-text"),
                                  WithDefault(args.level, "AA")))
      [] name = "suggest_accessible_color" ->
             SuggestColorResult(
                 args.foreground, args.background, args.targetRatio,
                 suggestAccessibleColors(args.foreground, args.background,
                                         args.targetRatio,
                                         WithDefault(args.preserve, "both")))
      [] OTHER -> ToolError("Unknown tool", name)

(***************************************************************************)
(* Texts handed to parseColor                                              *)
(***************************************************************************)

\* The longest body written after '#'.
MaxHexLen == 7

\* The largest channel value written in an rgb() text.
MaxDecimal == 300

\* The decimal digits of n > 0, most significant first.
RECURSIVE DecOf(_)
DecOf(n) ==
    IF n = 0 THEN <<>> ELSE Append(DecOf(n \div 10), HexDigits[(n % 10) + 1])

Decimal(n) == IF n = 0 THEN <<"0">> ELSE DecOf(n)

Repeat(c, n) == [i \in 1..n |-> c]

HexBodyChars == {"0", "9", "a", "F", "g", "-", " "}

HexPairs == {<<"0", "0">>, <<"f", "f">>, <<"7", "C">>, <<"0", "x">>,
             <<"f", "g">>, <<"g", "g">>, <<"-", "f">>}

HexBodies ==
    {<<a, b, c>> : a \in HexBodyChars, b \in HexBodyChars, c \in HexBodyChars}
    \cup {p \o q \o r : p \in HexPairs, q \in HexPairs, r \in HexPairs}
    \cup {Repeat(c, n) : c \in {"0", "f", "g"}, n \in 0..MaxHexLen}
    \cup {<<"r", "g", "b", "(", "1", ",", "2", ",", "3", ")">>}

HexTexts ==
    {<<"#">> \o body : body \in HexBodies}
    \cup {<<" ", "#">> \o body \o <<" ">> :
              body \in {Repeat(c, n) : c \in {"f", "g"}, n \in {2, 3, 6}}}

RgbNames == {<<"r", "g", "b">>, <<"r", "g", "b", "a">>, <<"R", "G", "B">>}

Separators == {<<",">>, <<",", " ">>, <<" ", ",">>}

Alphas == {<<>>, <<",", "0", ".", "5">>, <<",", " ", "1">>, <<",", "x">>}

RgbTexts ==
    {prefix \o name \o <<"(">> \o Decimal(r) \o sep \o Decimal(g) \o sep
        \o Decimal(b) \o alpha \o close \o suffix :
        prefix \in {<<>>, <<"x">>}, name \in RgbNames,
        r \in {0, 9, 255, 256, MaxDecimal}, g \in {0, 255}, b \in {7, MaxDecimal},
        sep \in Separators, alpha \in Alphas, close \in {<<")">>, <<>>},
        suffix \in {<<>>, <<"x">>}}

OtherTexts ==
    {<<>>, <<" ">>, <<"r", "e", "d">>,
     <<"n", "o", "t", "a", "c", "o", "l", "o", "r">>,
     <<"r", "g", "b", "(", ")">>,
     <<"r", "g", "b", "(", "1", ",", "2", ")">>,
     <<"r", "g", "b", "(", " ", "1", ",", "2", ",", "3", ")">>}

ColorTexts == HexTexts \cup RgbTexts \cup OtherTexts

(***************************************************************************)
(* A caller that parses a text, formats the result and parses it again     *)
(***************************************************************************)

NotParsed == Thrown("", <<>>)

\* The variables of a caller that is not running.
ParseIdle ==
    color = <<>> /\ parsed = NotParsed /\ hexText = <<>> /\ reparsed = NotParsed

HslIdle ==
    srcRgb = Rgb(0, 0, 0) /\ asHsl = Hsl(0, 0, 0) /\ backRgb = Rgb(0, 0, 0)

ContrastIdle ==
    /\ colorA = Rgb(0, 0, 0) /\ colorB = Rgb(0, 0, 0)
    /\ lum1 = 0 /\ lum2 = 0
    /\ ratio12 = Ratio(1, 1) /\ ratio21 = Ratio(1, 1)

SearchIdle ==
    /\ foreground = Rgb(0, 0, 0) /\ background = Rgb(0, 0, 0)
    /\ targetRatio = 0 /\ adjustForeground = TRUE
    /\ minL = 0 /\ maxL = 0 /\ iterations = 0
    /\ result = NoColor

\* No call of analyzeColorPair has been made.
NoAnalysis ==
    [foreground |-> <<>>, background |-> <<>>, contentType |-> Undefined,
     level |-> Undefined, returned |-> AnalysisThrown(NotParsed)]

AnalyzeIdle == handedTable = <<>> /\ tampered = 0 /\ analysis = NoAnalysis

SuggestIdle ==
    /\ fgText = <<>> /\ bgText = <<>>
    /\ requestedRatio = 0 /\ preserveProperty = Undefined
    /\ suggestions = Suggested(<<>>)

NoRequest == ToolRequest("", <<>>, <<>>, Undefined, Undefined, 0, Undefined)

ToolIdle == request = NoRequest /\ response = ToolSuccess(<<>>)

RelightIdle ==
    /\ litRgb = Rgb(0, 0, 0) /\ litLightness = 0 /\ relit = Rgb(0, 0, 0)
    /\ onWhite = Ratio(1, 1) /\ onBlack = Ratio(1, 1)

InitParse ==
    /\ pc = "parse"
    /\ color \in ColorTexts
    /\ parsed = NotParsed
    /\ hexText = <<>>
    /\ reparsed = NotParsed
    /\ HslIdle /\ ContrastIdle /\ SearchIdle
    /\ AnalyzeIdle /\ SuggestIdle /\ ToolIdle /\ RelightIdle

\* const rgb = parseColor(color)
ParseStep ==
    /\ pc = "parse"
    /\ parsed' = parseColor(color)
    /\ pc' = IF parsed'.ok THEN "format" ELSE "thrown"
    /\ UNCHANGED <<color, hexText, reparsed, hslVars, contrastVars, searchVars,
                   analyzeVars, suggestVars, toolVars, relightVars>>

\* const hex = rgbToHex(rgb)
FormatStep ==
    /\ pc = "format"
    /\ hexText' = rgbToHex(parsed.rgb)
    /\ pc' = "reparse"
    /\ UNCHANGED <<color, parsed, reparsed, hslVars, contrastVars, searchVars,
                   analyzeVars, suggestVars, toolVars, relightVars>>

\* parseColor(hex)
ReparseStep ==
    /\ pc = "reparse"
    /\ reparsed' = parseColor(hexText)
    /\ pc' = "parsedTwice"
    /\ UNCHANGED <<color, parsed, hexText, hslVars, contrastVars, searchVars,
                   analyzeVars, suggestVars, toolVars, relightVars>>

NextParse == ParseStep \/ FormatStep \/ ReparseStep

SpecParse == InitParse /\ [][NextParse]_vars

(***************************************************************************)
(* A caller that converts a colour to HSL and backRgb                         *)
(***************************************************************************)

\* Channel values are taken at every multiple of the stride and next to it.
ChannelStride == 51

ChannelSamples ==
    {c \in 0..255 : c % ChannelStride \in {0, 1, ChannelStride - 1}} \cup {255}

SampleColors ==
    {Rgb(r, g, b) : r \in ChannelSamples, g \in ChannelSamples, b \in ChannelSamples}
    \cup {Rgb(2, 228, 230), Rgb(9, 7, 7), Rgb(124, 138, 255)}

InitHsl ==
    /\ pc = "convert"
    /\ srcRgb \in SampleColors
    /\ asHsl = Hsl(0, 0, 0)
    /\ backRgb = Rgb(0, 0, 0)
    /\ ParseIdle /\ ContrastIdle /\ SearchIdle
    /\ AnalyzeIdle /\ SuggestIdle /\ ToolIdle /\ RelightIdle

\* const asHsl = rgbToHsl(srcRgb)
ToHslStep ==
    /\ pc = "convert"
    /\ asHsl' = rgbToHsl(srcRgb)
    /\ pc' = "converted"
    /\ UNCHANGED <<srcRgb, backRgb, parseVars, contrastVars, searchVars,
                   analyzeVars, suggestVars, toolVars, relightVars>>

\* hslToRgb(asHsl)
ToRgbStep ==
    /\ pc = "converted"
    /\ backRgb' = hslToRgb(asHsl)
    /\ pc' = "convertedBack"
    /\ UNCHANGED <<srcRgb, asHsl, parseVars, contrastVars, searchVars,
                   analyzeVars, suggestVars, toolVars, relightVars>>

NextHsl == ToHslStep \/ ToRgbStep

SpecHsl == InitHsl /\ [][NextHsl]_vars

(***************************************************************************)
(* A caller that measures two colours against each other                   *)
(***************************************************************************)

ContrastStride == 85

ContrastSamples == {c \in 0..255 : c % ContrastStride = 0} \cup {255}

ContrastColors ==
    {Rgb(r, g, b) : r \in ContrastSamples, g \in ContrastSamples,
                    b \in ContrastSamples}

InitContrast ==
    /\ pc = "measure"
    /\ colorA \in ContrastColors
    /\ colorB \in ContrastColors
    /\ lum1 = 0 /\ lum2 = 0
    /\ ratio12 = Ratio(1, 1) /\ ratio21 = Ratio(1, 1)
    /\ ParseIdle /\ HslIdle /\ SearchIdle
    /\ AnalyzeIdle /\ SuggestIdle /\ ToolIdle /\ RelightIdle

\* getRelativeLuminance of each colour
LuminanceStep ==
    /\ pc = "measure"
    /\ lum1' = getRelativeLuminance(colorA)
    /\ lum2' = getRelativeLuminance(colorB)
    /\ pc' = "measured"
    /\ UNCHANGED <<colorA, colorB, ratio12, ratio21, parseVars, hslVars, searchVars,
                   analyzeVars, suggestVars, toolVars, relightVars>>

\* getContrastRatio(colorA, colorB) and getContrastRatio(colorB, colorA)
RatioStep ==
    /\ pc = "measured"
    /\ ratio12' = getContrastRatio(colorA, colorB)
    /\ ratio21' = getContrastRatio(colorB, colorA)
    /\ pc' = "compared"
    /\ UNCHANGED <<colorA, colorB, lum1, lum2, parseVars, hslVars, searchVars,
                   analyzeVars, suggestVars, toolVars, relightVars>>

NextContrast == LuminanceStep \/ RatioStep

SpecContrast == InitContrast /\ [][NextContrast]_vars

(***************************************************************************)
(* One call of findAccessibleColor, an iteration of its loop at a time     *)
(***************************************************************************)

\* Grey levels are taken at every multiple of the stride.
GreyStride == 51

SearchColors ==
    {Rgb(c, c, c) : c \in {x \in 0..255 : x % GreyStride = 0}}
    \cup {Rgb(68, 68, 68), Rgb(119, 119, 119), Rgb(118, 118, 118),
          Rgb(124, 138, 255), Rgb(255, 0, 0), Rgb(255, 255, 0), Rgb(0, 0, 255)}

\* Target ratios 2.1, 3, 4.5, 7 and 22, in units of 1/RatioUnit.
SearchTargets == {840, 1200, 1800, 2800, 8800}

Subject == colorToAdjust(foreground, background, adjustForeground)

Fixed == fixedColor(foreground, background, adjustForeground)

InitSearch ==
    /\ pc = "search"
    /\ foreground \in SearchColors
    /\ background \in SearchColors
    /\ targetRatio \in SearchTargets
    /\ adjustForeground \in BOOLEAN
    /\ minL = 0
    /\ maxL = 100 * LUnit
    /\ iterations = 0
    /\ result = NoColor
    /\ ParseIdle /\ HslIdle /\ ContrastIdle
    /\ AnalyzeIdle /\ SuggestIdle /\ ToolIdle /\ RelightIdle

InLoop == pc = "search" /\ LoopContinues(minL, maxL, iterations)

MeetsAtMid ==
    MidMeets(Subject, Fixed, targetRatio, adjustForeground, minL, maxL)

\* An iteration whose midpoint meets the target.
MeetStep ==
    /\ InLoop
    /\ MeetsAtMid
    /\ minL' = NarrowOnMeet(Subject, minL, maxL)[1]
    /\ maxL' = NarrowOnMeet(Subject, minL, maxL)[2]
    /\ iterations' = iterations + 1
    /\ UNCHANGED <<pc, foreground, background, targetRatio, adjustForeground,
                   result, parseVars, hslVars, contrastVars,
                   analyzeVars, suggestVars, toolVars, relightVars>>

\* An iteration whose midpoint does not meet the target.
FailStep ==
    /\ InLoop
    /\ ~MeetsAtMid
    /\ minL' = NarrowOnFail(Subject, Fixed, minL, maxL)[1]
    /\ maxL' = NarrowOnFail(Subject, Fixed, minL, maxL)[2]
    /\ iterations' = iterations + 1
    /\ UNCHANGED <<pc, foreground, background, targetRatio, adjustForeground,
                   result, parseVars, hslVars, contrastVars,
                   analyzeVars, suggestVars, toolVars, relightVars>>

\* The loop has ended: test both boundaries and return.
ReturnStep ==
    /\ pc = "search"
    /\ ~LoopContinues(minL, maxL, iterations)
    /\ result' = TestBoundaries(Subject, Fixed, targetRatio, adjustForeground,
                                minL, maxL)
    /\ pc' = "returned"
    /\ UNCHANGED <<foreground, background, targetRatio, adjustForeground,
                   minL, maxL, iterations, parseVars, hslVars, contrastVars,
                   analyzeVars, suggestVars, toolVars, relightVars>>

NextSearch == MeetStep \/ FailStep \/ ReturnStep

SpecSearch == InitSearch /\ [][NextSearch]_vars

\* The calls whose termination is followed: three grey subjects against a
\* grey and two saturated fixed colours, either side being the one adjusted,
\* for a target that can be met and for one that cannot.
InitLiveSearch ==
    /\ InitSearch
    /\ Subject \in {Rgb(68, 68, 68), Rgb(118, 118, 118), Rgb(119, 119, 119)}
    /\ Fixed \in {Rgb(68, 68, 68), Rgb(255, 0, 0), Rgb(0, 0, 255)}
    /\ targetRatio \in {1800, 8800}

\* The call is sequential code that runs until it returns: whenever it has a
\* next step, it takes one.
LiveSearch == InitLiveSearch /\ [][NextSearch]_vars /\ WF_vars(NextSearch)

(***************************************************************************)
(* A caller of getContrastRequirements and analyzeColorPair: it makes any  *)
(* sequence of calls and may overwrite entries of the table it was handed. *)
(***************************************************************************)

\* The number of entries of one table the caller overwrites.
MaxTampering == 1

\* #949494, #959595, white, black in the short form, and a text parseColor
\* rejects.
AnalyzeTexts ==
    {rgbToHex(Rgb(148, 148, 148)), rgbToHex(Rgb(149, 149, 149)),
     rgbToHex(Rgb(255, 255, 255)), <<"#", "0", "0", "0">>, <<"r", "e", "d">>}

InitAnalyze ==
    /\ pc = "ready"
    /\ handedTable = <<>>
    /\ tampered = 0
    /\ analysis = NoAnalysis
    /\ ParseIdle /\ HslIdle /\ ContrastIdle /\ SearchIdle /\ SuggestIdle
    /\ ToolIdle /\ RelightIdle

\* const table = getContrastRequirements()
GetRequirementsStep ==
    /\ pc = "ready"
    /\ handedTable' = <<getContrastRequirements>>
    /\ tampered' = 0
    /\ UNCHANGED <<pc, analysis, parseVars, hslVars, contrastVars, searchVars,
                   suggestVars, toolVars, relightVars>>

\* table[contentType][level] = 0
TamperStep ==
    /\ pc = "ready"
    /\ handedTable # <<>>
    /\ tampered < MaxTampering
    /\ \E c \in ContentTypes, l \in WCAGLevels :
          handedTable' = <<[handedTable[1] EXCEPT ![c][l] = 0]>>
    /\ tampered' = tampered + 1
    /\ UNCHANGED <<pc, analysis, parseVars, hslVars, contrastVars, searchVars,
                   suggestVars, toolVars, relightVars>>

\* analyzeColorPair(foreground, background, contentType, level), the last
\* two arguments given or left out
AnalyzeStep ==
    /\ pc = "ready"
    /\ \E f \in AnalyzeTexts, b \in AnalyzeTexts,
          c \in ContentTypes \cup {Undefined}, l \in WCAGLevels \cup {Undefined} :
          analysis' = [foreground |-> f, background |-> b, contentType |-> c,
                       level |-> l, returned |-> analyzeColorPair(f, b, c, l)]
    /\ pc' = "analyzed"
    /\ UNCHANGED <<handedTable, tampered, parseVars, hslVars, contrastVars,
                   searchVars, suggestVars, toolVars, relightVars>>

\* The caller is done with the result, or with the error, of the call.
NextCallStep ==
    /\ pc = "analyzed"
    /\ analysis' = NoAnalysis
    /\ pc' = "ready"
    /\ UNCHANGED <<handedTable, tampered, parseVars, hslVars, contrastVars,
                   searchVars, suggestVars, toolVars, relightVars>>

NextAnalyze == GetRequirementsStep \/ TamperStep \/ AnalyzeStep \/ NextCallStep

SpecAnalyze == InitAnalyze /\ [][NextAnalyze]_vars

(***************************************************************************)
(* One call of suggestAccessibleColors                                     *)
(***************************************************************************)

SuggestTexts ==
    {rgbToHex(c) : c \in {Rgb(0, 0, 0), Rgb(68, 68, 68), Rgb(118, 118, 118),
                          Rgb(124, 138, 255), Rgb(255, 0, 0),
                          Rgb(255, 255, 255)}}
    \cup {<<"r", "e", "d">>}

\* Target ratios 3, 4.5, 4.6225, 7, 21.0025 and 22, in units of 1/RatioUnit.
SuggestTargets == {1200, 1800, 1849, 2800, 8401, 8800}

InitSuggest ==
    /\ pc = "suggest"
    /\ fgText \in SuggestTexts
    /\ bgText \in SuggestTexts
    /\ requestedRatio \in SuggestTargets
    /\ preserveProperty \in {"foreground", "background", "both", Undefined}
    /\ suggestions = Suggested(<<>>)
    /\ ParseIdle /\ HslIdle /\ ContrastIdle /\ SearchIdle /\ AnalyzeIdle
    /\ ToolIdle /\ RelightIdle

SuggestStep ==
    /\ pc = "suggest"
    /\ suggestions' = suggestAccessibleColors(fgText, bgText, requestedRatio,
                                              preserveProperty)
    /\ pc' = IF suggestions'.ok THEN "suggested" ELSE "thrown"
    /\ UNCHANGED <<fgText, bgText, requestedRatio, preserveProperty, parseVars,
                   hslVars, contrastVars, searchVars, analyzeVars, toolVars, relightVars>>

NextSuggest == SuggestStep

SpecSuggest == InitSuggest /\ [][NextSuggest]_vars

(***************************************************************************)
(* One tool call handled by the MCP server                                 *)
(***************************************************************************)

\* Colours in the three supported forms, texts parseColor throws for, and
\* texts in no supported form that parseColor returns a colour for.
ToolTexts ==
    {rgbToHex(Rgb(255, 255, 255)), rgbToHex(Rgb(118, 118, 118)),
     <<"#", "0", "0", "0">>,
     <<"r", "g", "b", "(", "0", ",", "0", ",", "7", ")">>,
     <<"r", "e", "d">>,
     <<"#", "1", "2", "3", "4", "5">>,
     <<>>,
     <<"#", "g", "g", "g">>,
     <<"#", "f", "g", "0", "0", "0", "0">>,
     <<"x", "r", "g", "b", "(", "0", ",", "0", ",", "7", ")", "x">>}

InitTool ==
    /\ pc = "request"
    /\ request \in
          {ToolRequest(name, fgT, bgT, contentType, level, target, preserve) :
              name \in ToolNames \cup {"unknown_tool"},
              fgT \in ToolTexts, bgT \in ToolTexts,
              contentType \in {Undefined, "large-text"},
              level \in {Undefined, "AAA"},
              target \in {(45 * RatioUnit) \div 10},
              preserve \in {Undefined, "foreground"}}
    /\ response = ToolSuccess(<<>>)
    /\ ParseIdle /\ HslIdle /\ ContrastIdle /\ SearchIdle
    /\ AnalyzeIdle /\ SuggestIdle /\ RelightIdle

CallToolStep ==
    /\ pc = "request"
    /\ response' = CallTool(request.name, request.arguments)
    /\ pc' = "responded"
    /\ UNCHANGED <<request, parseVars, hslVars, contrastVars, searchVars,
                   analyzeVars, suggestVars, relightVars>>

NextTool == CallToolStep

SpecTool == InitTool /\ [][NextTool]_vars

(***************************************************************************)
(* Properties of parseColor and rgbToHex                                   *)
(***************************************************************************)

Channels(rgb) == {rgb.r, rgb.g, rgb.b}

\* The grammar of colour texts: '#' and 3 or 6 hex digits, or exactly one
\* rgb(r, g, b) / rgba(r, g, b, a) form with nothing before or after it.
IsSupportedForm(normalized) ==
    \/ /\ Len(normalized) \in {4, 7}
       /\ normalized[1] = "#"
       /\ \A i \in 2..Len(normalized) : normalized[i] \in HexDigitChars
    \/ /\ MatchRgbAt(normalized, 1)[1]
       /\ MatchRgbAt(normalized, 1)[5] = Len(normalized)

\* C1: every colour parseColor returns has three channels in 0..255, so a text
\* with a channel outside that range is rejected or clamped.
ParsedChannelsInRange ==
    (pc # "parse" /\ parsed.ok) => Channels(parsed.rgb) \subseteq 0..255

\* C2: parseColor raises for every text that, trimmed and lower-cased, is not
\* exactly one of the supported forms.
UnsupportedTextRaises ==
    (pc # "parse" /\ ~IsSupportedForm(toLowerCase(trim(color)))) => ~parsed.ok

\* C3: for every text parseColor accepts, formatting the result with rgbToHex
\* and parsing that again succeeds and yields the same RGB.
ParseFormatParseSame ==
    pc = "parsedTwice" => (reparsed.ok /\ reparsed.rgb = parsed.rgb)

(***************************************************************************)
(* Properties of rgbToHsl and hslToRgb                                     *)
(***************************************************************************)

Converted == pc \in {"converted", "convertedBack"}

WholePercent(l) == l % LUnit = 0 /\ l \div LUnit \in 0..100

\* The largest difference between two colours in one channel.
ChannelDistance(x, y) ==
    Max3(Abs(x.r - y.r), Abs(x.g - y.g), Abs(x.b - y.b))

\* C4 as claimed: rgbToHsl returns integers with hue in [0, 360), saturation
\* in [0, 100] and lightness in [0, 100].
HslHueBelow360 ==
    Converted =>
        (asHsl.h \in 0..359 /\ asHsl.s \in 0..100 /\ WholePercent(asHsl.l))

\* C4 as amended: rgbToHsl returns integers with hue in [0, 360], 360 included,
\* saturation in [0, 100] and lightness in [0, 100].
HslInRange ==
    Converted =>
        (asHsl.h \in 0..360 /\ asHsl.s \in 0..100 /\ WholePercent(asHsl.l))

\* C4 witness: a colour whose hue rounds up to 360.
HueRoundsTo360 == pc = "converted" /\ asHsl.h = 360

\* C5 as claimed: hslToRgb(rgbToHsl(rgb)) is within 1 of rgb in each channel.
RoundTripWithinOne ==
    pc = "convertedBack" => ChannelDistance(srcRgb, backRgb) <= 1

\* C5 as amended: hslToRgb(rgbToHsl(rgb)) is within 5 of rgb in each channel.
RoundTripWithinFive ==
    pc = "convertedBack" => ChannelDistance(srcRgb, backRgb) <= 5

\* C5 witness: a round trip that moves a channel by 5.
RoundTripOffByFive ==
    pc = "convertedBack" /\ ChannelDistance(srcRgb, backRgb) = 5

(***************************************************************************)
(* Properties of getRelativeLuminance and getContrastRatio                 *)
(***************************************************************************)

White == Rgb(255, 255, 255)

Black == Rgb(0, 0, 0)

\* C6: getContrastRatio(a, b) equals getContrastRatio(b, a).
ContrastSymmetric == pc = "compared" => ratio12 = ratio21

\* C6 witness: a darker colour measured against a lighter one, both orders.
DarkerAgainstLighter == pc = "compared" /\ lum1 < lum2 /\ ratio12 = ratio21

\* C7: every relative luminance lies in [0, 1]; every contrast ratio is at
\* least 1 and at most 21, and white against black gives 21.
LuminanceAndRatioInRange ==
    /\ pc \in {"measured", "compared"} => (lum1 \in 0..LumOne /\ lum2 \in 0..LumOne)
    /\ pc = "compared" =>
          /\ RatioAtLeast(ratio12, RatioUnit)
          /\ RatioAtMost(ratio12, 21 * RatioUnit)
          /\ (colorA = White /\ colorB = Black) => ratio12.num = 21 * ratio12.den

\* C7 witness: white measured against black, the ratio being 21.
WhiteAgainstBlack ==
    /\ pc = "compared" /\ colorA = White /\ colorB = Black
    /\ lum1 = LumOne /\ lum2 = 0
    /\ ratio12.num = 21 * ratio12.den

(***************************************************************************)
(* Properties of findAccessibleColor                                       *)
(***************************************************************************)

\* The lightness values the properties range over: the multiples of
\* 100/LUnit, which the search can compute, and the whole percents.
LightnessGrid == {100 * k : k \in 0..LUnit} \cup {LUnit * k : k \in 0..100}

\* The subject at lightness l meets the target against the fixed colour.
MeetsAt(l) ==
    RatioAtLeast(RatioOfAdjusted(adjustLightness(Subject, l), Fixed,
                                 adjustForeground), targetRatio)

OriginalL == rgbToHsl(Subject).l

\* C8: a colour findAccessibleColor returns has a contrast ratio against the
\* fixed colour of at least targetRatio.
ReturnedColorMeetsTarget ==
    (pc = "returned" /\ result.found) =>
        RatioAtLeast(getContrastRatio(result.rgb, Fixed), targetRatio)

\* C8 witness: a pair below the target for which a colour is returned.
FailingPairRepaired ==
    /\ pc = "returned" /\ result.found
    /\ ~RatioAtLeast(getContrastRatio(Subject, Fixed), targetRatio)
    /\ RatioAtLeast(getContrastRatio(result.rgb, Fixed), targetRatio)

\* C9: findAccessibleColor returns null only when no lightness in [0, 100]
\* gives the subject a contrast ratio of at least targetRatio.
NullOnlyWhenNoLightnessMeets ==
    (pc = "returned" /\ ~result.found) => \A l \in LightnessGrid : ~MeetsAt(l)

\* C10: no lightness that meets the target is closer to the subject's
\* original lightness than the returned colour's by more than 1 unit.
ReturnedIsClosest ==
    (pc = "returned" /\ result.found) =>
        \A l \in LightnessGrid :
            MeetsAt(l) =>
                Abs(l - OriginalL) >= Abs(result.lightness - OriginalL) - LUnit

SearchEndsWithinCap ==
    /\ [](iterations <= maxIterations)
    /\ <>(pc = "returned" /\ ~LoopContinues(minL, maxL, iterations))

\* C12 witness: a call that has returned after its loop made some iterations.
ReturnedAfterLoop ==
    /\ pc = "returned"
    /\ iterations \in 1..maxIterations
    /\ ~LoopContinues(minL, maxL, iterations)

\* C13: after the loop, if the colours at both final boundaries meet the
\* target the one whose lightness is closer to the original lightness is
\* returned (the lower boundary on a tie); if exactly one meets it, that one
\* is returned; if neither does, null is returned.
BoundaryChoice ==
    pc = "returned" =>
        LET lightDiff == Abs(maxL - OriginalL)
            darkDiff == Abs(minL - OriginalL)
            light == Found(adjustLightness(Subject, maxL), maxL)
            dark == Found(adjustLightness(Subject, minL), minL)
        IN  /\ (MeetsAt(maxL) /\ MeetsAt(minL)) =>
                   result = (IF lightDiff < darkDiff THEN light ELSE dark)
            /\ (MeetsAt(maxL) /\ ~MeetsAt(minL)) => result = light
            /\ (~MeetsAt(maxL) /\ MeetsAt(minL)) => result = dark
            /\ (~MeetsAt(maxL) /\ ~MeetsAt(minL)) => result = NoColor

\* C13 witness: both boundaries meet the target, the lower one is closer to
\* the original lightness, and it is the one returned.
BothMeetLowerCloser ==
    /\ pc = "returned"
    /\ MeetsAt(maxL) /\ MeetsAt(minL)
    /\ Abs(minL - OriginalL) < Abs(maxL - OriginalL)
    /\ result = Found(adjustLightness(Subject, minL), minL)
    /\ result.rgb # adjustLightness(Subject, maxL)

(***************************************************************************)
(* Properties of getContrastRequirements and analyzeColorPair              *)
(***************************************************************************)

\* The thresholds as the specification states them, in units of 1/RatioUnit:
\* normal text 4.5 and 7.0, large text 3.0 and 4.5, UI components 3.0 and 3.0.
StatedThresholds ==
    [c \in ContentTypes |->
        IF c = "normal-text" THEN [AA |-> (45 * RatioUnit) \div 10, AAA |-> 7 * RatioUnit]
        ELSE IF c = "large-text" THEN [AA |-> 3 * RatioUnit, AAA |-> (45 * RatioUnit) \div 10]
        ELSE [AA |-> 3 * RatioUnit, AAA |-> 3 * RatioUnit]]

\* A call of analyzeColorPair has returned a result.
Analyzed == pc = "analyzed" /\ analysis.returned.ok

\* The content type and the level the call asked for.
AskedContentType == WithDefault(analysis.contentType, "normal-text")

AskedLevel == WithDefault(analysis.level, "AA")

\* The ratio of the call's two colours, not rounded.
UnroundedRatio ==
    getContrastRatio(parseColor(analysis.foreground).rgb,
                     parseColor(analysis.background).rgb)

\* The same two colours analysed with the content type and level left out.
DefaultAnalysis ==
    analyzeColorPair(analysis.foreground, analysis.background, Undefined,
                     Undefined)

\* C15: the three pass flags are taken against the AA minimums (4.5, 3.0 and
\* 3.0) whatever content type and level were asked for; apart from
\* meetsRequirement and the requirement record the result is that of the
\* call with both left out.
PassFlagsAtAA ==
    Analyzed =>
        /\ analysis.returned.passes =
              Passes(RatioAtLeast(UnroundedRatio, (45 * RatioUnit) \div 10),
                     RatioAtLeast(UnroundedRatio, 3 * RatioUnit),
                     RatioAtLeast(UnroundedRatio, 3 * RatioUnit))
        /\ analysis.returned =
              [DefaultAnalysis EXCEPT
                  !.requirement = analysis.returned.requirement,
                  !.meetsRequirement = analysis.returned.meetsRequirement]

\* C15 witness: normal text asked at AAA for a pair between 4.5 and 7: the
\* normalText flag is set though the requirement is not met.
FlagSetRequirementMissed ==
    /\ Analyzed
    /\ AskedContentType = "normal-text" /\ AskedLevel = "AAA"
    /\ analysis.returned.passes.normalText
    /\ ~analysis.returned.meetsRequirement
    /\ analysis.returned.requirement.minimumRatio = 7 * RatioUnit

\* C16: meetsRequirement compares the unrounded ratio with the minimum of the
\* content type and level asked for, and the ratio field is the ratio
\* rounded to two decimals; so a ratio below the minimum is reported as not
\* meeting it even when the rounded ratio equals the minimum.
UnroundedRatioDecides ==
    Analyzed =>
        /\ analysis.returned.ratio = RoundedRatio(UnroundedRatio)
        /\ analysis.returned.meetsRequirement =
              RatioAtLeast(UnroundedRatio,
                           StatedThresholds[AskedContentType][AskedLevel])
        /\ ~RatioAtLeast(UnroundedRatio,
                         StatedThresholds[AskedContentType][AskedLevel])
              => ~analysis.returned.meetsRequirement

\* C16 witness: a pair reported with exactly the minimum as its ratio, and as
\* not meeting the requirement.
ShownAtMinimumButMissed ==
    /\ Analyzed
    /\ RatioUnit * analysis.returned.ratio =
          100 * StatedThresholds[AskedContentType][AskedLevel]
    /\ ~RatioAtLeast(UnroundedRatio,
                     StatedThresholds[AskedContentType][AskedLevel])
    /\ ~analysis.returned.meetsRequirement

\* The call analyzeColorPair("#949494", "#ffffff") has returned.
GreyOnWhiteByDefault ==
    /\ pc = "analyzed"
    /\ analysis.foreground = rgbToHex(Rgb(148, 148, 148))
    /\ analysis.background = rgbToHex(White)
    /\ analysis.contentType = Undefined /\ analysis.level = Undefined

ThresholdsNeverChange ==
    /\ getContrastRequirements = StatedThresholds
    /\ Analyzed =>
          /\ analysis.returned.requirement.minimumRatio =
                StatedThresholds[AskedContentType][AskedLevel]
          /\ analysis.returned.meetsRequirement =
                RatioAtLeast(UnroundedRatio,
                             StatedThresholds[AskedContentType][AskedLevel])
          /\ analysis.returned.passes =
                Passes(RatioAtLeast(UnroundedRatio, StatedThresholds["normal-text"].AA),
                       RatioAtLeast(UnroundedRatio, StatedThresholds["large-text"].AA),
                       RatioAtLeast(UnroundedRatio, StatedThresholds["ui-component"].AA))

\* C18 witness: the caller has set the entry of a table it holds to 0, and a
\* call asking for that entry still finds the requirement missed.
OverwrittenEntryIgnored ==
    /\ Analyzed
    /\ tampered > 0
    /\ handedTable[1][AskedContentType][AskedLevel] = 0
    /\ analysis.returned.requirement.minimumRatio =
          StatedThresholds[AskedContentType][AskedLevel]
    /\ ~analysis.returned.meetsRequirement

(***************************************************************************)
(* Properties of suggestAccessibleColors                                   *)
(***************************************************************************)

\* The two colours of the call, once both texts were parsed.
SuggestFg == parseColor(fgText).rgb

SuggestBg == parseColor(bgText).rgb

\* C14: for a targetRatio greater than 21, findAccessibleColor returns null
\* for either value of adjustForeground and suggestAccessibleColors returns
\* an empty list.
ImpossibleTargetGivesNothing ==
    (pc = "suggested" /\ requestedRatio > 21 * RatioUnit) =>
        /\ findAccessibleColor(SuggestFg, SuggestBg, requestedRatio, TRUE) = NoColor
        /\ findAccessibleColor(SuggestFg, SuggestBg, requestedRatio, FALSE) = NoColor
        /\ suggestions.list = <<>>

\* C14 witness: black on white, the pair of the highest ratio there is, asked
\* for a ratio above 21 with both sides free to change: no suggestion.
NothingBeyondBlackOnWhite ==
    /\ pc = "suggested"
    /\ requestedRatio > 21 * RatioUnit
    /\ SuggestFg = Black /\ SuggestBg = White
    /\ getContrastRatio(SuggestFg, SuggestBg) = Ratio(21 * Flare, Flare)
    /\ preserveProperty = "both"
    /\ suggestions.list = <<>>

Preserved == WithDefault(preserveProperty, "both")

\* The sides the suggestions of the call adjust, in the order of the list.
AdjustedSides ==
    [i \in 1..Len(suggestions.list) |-> suggestions.list[i].adjustedProperty]

\* C19: with 'background' preserved every suggestion adjusts the foreground,
\* with 'foreground' preserved every suggestion adjusts the background, and
\* with 'both' (the default) there are at most two suggestions, at most one
\* for each side.
OnlyTheOtherSideAdjusted ==
    pc = "suggested" =>
        /\ Preserved = "background" =>
              \A i \in 1..Len(AdjustedSides) : AdjustedSides[i] = "foreground"
        /\ Preserved = "foreground" =>
              \A i \in 1..Len(AdjustedSides) : AdjustedSides[i] = "background"
        /\ Len(AdjustedSides) <= 2
        /\ \A i, j \in 1..Len(AdjustedSides) :
              AdjustedSides[i] = AdjustedSides[j] => i = j
        /\ \A i \in 1..Len(AdjustedSides) :
              AdjustedSides[i] \in {"foreground", "background"}

\* C19 witness: suggestAccessibleColors("#7c8aff", "#ffffff", 4.5,
\* "background") gives one suggestion, for the foreground.
ForegroundSuggestedForBackgroundKept ==
    /\ pc = "suggested"
    /\ SuggestFg = Rgb(124, 138, 255) /\ SuggestBg = White
    /\ requestedRatio = (45 * RatioUnit) \div 10
    /\ preserveProperty = "background"
    /\ AdjustedSides = <<"foreground">>

\* The ratio, not rounded, of a suggestion against the colour that was kept.
SuggestionRatio(suggestion) ==
    IF suggestion.adjustedProperty = "foreground"
    THEN getContrastRatio(parseColor(suggestion.color).rgb, SuggestBg)
    ELSE getContrastRatio(SuggestFg, parseColor(suggestion.color).rgb)

\* C20 as claimed: every suggestion reports a ratio of at least the target.
ReportedRatioMeetsTarget ==
    pc = "suggested" =>
        \A i \in 1..Len(suggestions.list) :
            ReportedAtLeast(suggestions.list[i].ratio, requestedRatio)

\* C20 as amended: every suggestion has, before rounding, a ratio of at
\* least the target; the ratio it reports is that ratio rounded to two
\* decimals, which is lower than the target by no more than 0.005, and not
\* lower when the target has no more than two decimals.
UnroundedRatioMeetsTarget ==
    pc = "suggested" =>
        \A i \in 1..Len(suggestions.list) :
            LET suggestion == suggestions.list[i]
            IN  /\ RatioAtLeast(SuggestionRatio(suggestion), requestedRatio)
                /\ suggestion.ratio = RoundedRatio(SuggestionRatio(suggestion))
                /\ 2 * RatioUnit * suggestion.ratio
                      >= 2 * 100 * requestedRatio - RatioUnit
                /\ (100 * requestedRatio) % RatioUnit = 0
                      => ReportedAtLeast(suggestion.ratio, requestedRatio)

\* C20 witness: a suggestion that meets a target of 4.6225 and reports 4.62.
ReportedBelowTarget ==
    /\ pc = "suggested"
    /\ \E i \in 1..Len(suggestions.list) :
          /\ RatioAtLeast(SuggestionRatio(suggestions.list[i]), requestedRatio)
          /\ ~ReportedAtLeast(suggestions.list[i].ratio, requestedRatio)


SuggestParsed == parseColor(fgText).ok /\ parseColor(bgText).ok

\* The foreground search was asked for and returned a colour.
FgSearchFound ==
    /\ Preserved \in {"background", "both"}
    /\ findAccessibleColor(SuggestFg, SuggestBg, requestedRatio, TRUE).found

\* The background search was asked for and returned a colour.
BgSearchFound ==
    /\ Preserved \in {"foreground", "both"}
    /\ findAccessibleColor(SuggestFg, SuggestBg, requestedRatio, FALSE).found

\* C22: when both colours parse, suggestAccessibleColors returns a list and
\* does not raise; the list holds one suggestion for each requested search
\* that returned a colour and nothing for a search that returned null, so it
\* is empty when every requested search returned null.
NullSearchesOmitted ==
    /\ (pc /= "suggest" /\ SuggestParsed) => (pc = "suggested" /\ suggestions.ok)
    /\ pc = "suggested" =>
          LET sides == {AdjustedSides[i] : i \in 1..Len(AdjustedSides)}
          IN  /\ FgSearchFound <=> "foreground" \in sides
              /\ BgSearchFound <=> "background" \in sides
              /\ Len(suggestions.list) = Cardinality(sides)
              /\ (~FgSearchFound /\ ~BgSearchFound) => suggestions.list = <<>>

\* C22 witness: both sides were free to change, the foreground search
\* returned null and the background's suggestion is returned alone.
BackgroundSuggestionAlone ==
    /\ pc = "suggested"
    /\ SuggestParsed
    /\ preserveProperty = "both"
    /\ findAccessibleColor(SuggestFg, SuggestBg, requestedRatio, TRUE) = NoColor
    /\ findAccessibleColor(SuggestFg, SuggestBg, requestedRatio, FALSE).found
    /\ AdjustedSides = <<"background">>


(***************************************************************************)
(* Properties of the handler of tool calls                                 *)
(***************************************************************************)

\* The text is a colour in one of the supported forms.
SupportedText(text) == IsSupportedForm(toLowerCase(trim(text)))

\* The first of the two colour texts of the request that is not supported.
OffendingText ==
    IF ~SupportedText(request.arguments.foreground)
    THEN request.arguments.foreground
    ELSE request.arguments.background

\* C23: a call of one of the three tools whose foreground or background is
\* not a supported colour ends in an error result whose message carries the
\* offending text, the foreground's when both are unsupported; it does not
\* end in a successful result.
UnsupportedColorGivesError ==
    (/\ pc = "responded"
     /\ request.name \in ToolNames
     /\ \/ ~SupportedText(request.arguments.foreground)
        \/ ~SupportedText(request.arguments.background)) =>
        /\ response.isError
        /\ response.payload.text = OffendingText


(***************************************************************************)
(* Properties of the iterations of findAccessibleColor                     *)
(***************************************************************************)

\* An iteration of the loop is taken.
Iteration == InLoop /\ iterations' = iterations + 1

\* C24: in an iteration whose midpoint colour does not meet the target, the
\* lower bound is raised to the midpoint when the luminance of the subject
\* (colorToAdjust, as it was handed in) exceeds the fixed colour's, and the
\* upper bound is lowered to the midpoint otherwise; the other bound stays.
FailedMidpointMovesAway ==
    [][(Iteration /\ ~MeetsAtMid) =>
          IF getRelativeLuminance(Subject) > getRelativeLuminance(Fixed)
          THEN minL' = MidL(minL, maxL) /\ maxL' = maxL
          ELSE maxL' = MidL(minL, maxL) /\ minL' = minL]_vars

\* C24 witness: the first midpoint (lightness 50) has failed and the lower
\* bound was raised to it, the subject being lighter than the fixed colour
\* although the midpoint colour is darker than it.
RaisedPastDarkerMidpoint ==
    /\ pc = "search" /\ iterations = 1
    /\ ~MeetsAt(50 * LUnit)
    /\ minL = 50 * LUnit /\ maxL = 100 * LUnit
    /\ getRelativeLuminance(Subject) > getRelativeLuminance(Fixed)
    /\ getRelativeLuminance(adjustLightness(Subject, 50 * LUnit))
          < getRelativeLuminance(Fixed)


\* C25: in an iteration whose midpoint colour meets the target, the lower
\* bound is raised to the midpoint when the midpoint is below the original
\* lightness and the upper bound is lowered to it otherwise; an original
\* lightness inside [minL, maxL] before the iteration is inside after it.
MetMidpointKeepsOriginal ==
    [][(Iteration /\ MeetsAtMid) =>
          /\ IF MidL(minL, maxL) < OriginalL
             THEN minL' = MidL(minL, maxL) /\ maxL' = maxL
             ELSE maxL' = MidL(minL, maxL) /\ minL' = minL
          /\ (minL <= OriginalL /\ OriginalL <= maxL)
                => (minL' <= OriginalL /\ OriginalL <= maxL')]_vars

\* C25 witness: two midpoints met the target, the first above the original
\* lightness and the second below it, and the original lightness is between
\* the two bounds they set.
OriginalBetweenMetMidpoints ==
    /\ pc = "search" /\ iterations = 2
    /\ MeetsAt(50 * LUnit) /\ MeetsAt(25 * LUnit)
    /\ minL = 25 * LUnit /\ maxL = 50 * LUnit
    /\ minL < OriginalL /\ OriginalL < maxL


\* C27: every iteration halves the width of the interval, so the loop ends
\* after exactly 7 iterations with maxL - minL = 100/128 = 0.78125, and
\* never because iterations reached maxIterations.
SevenHalvings ==
    /\ (maxL - minL) * 2^iterations = 100 * LUnit
    /\ iterations <= 7
    /\ (pc = "search" /\ ~LoopContinues(minL, maxL, iterations)) =>
          /\ iterations = 7
          /\ iterations < maxIterations
          /\ 128 * (maxL - minL) = 100 * LUnit
    /\ pc = "returned" => iterations = 7

\* C27 witness: a call has returned after 7 iterations, the interval being
\* 0.78125 wide.
ReturnedAfterSeven ==
    /\ pc = "returned"
    /\ iterations = 7
    /\ 100000 * (maxL - minL) = 78125 * LUnit

\* C28: in every state of the loop 0 <= minL < maxL <= 100, and every
\* iteration sets exactly one of the two bounds to the midpoint and leaves
\* the other as it was, so minL never decreases and maxL never increases.
BoundsCloseOneAtATime ==
    /\ [](0 <= minL /\ minL < maxL /\ maxL <= 100 * LUnit)
    /\ [][Iteration =>
             /\ \/ minL' = MidL(minL, maxL) /\ maxL' = maxL
                \/ maxL' = MidL(minL, maxL) /\ minL' = minL
             /\ minL' # minL \/ maxL' # maxL]_vars
    /\ [][minL' >= minL /\ maxL' <= maxL]_vars

\* C28 witness: the loop has raised the lower bound and lowered the upper
\* one, and has not ended.
BothBoundsMoved ==
    /\ InLoop
    /\ 0 < minL /\ maxL < 100 * LUnit

\* C29: findAccessibleColor(x, y, t, true) returns what
\* findAccessibleColor(y, x, t, false) returns: only which colour is the
\* subject and which is fixed matters.
RolesInterchangeable ==
    pc = "returned" =>
        LET swapped == findAccessibleColor(background, foreground, targetRatio,
                                           ~adjustForeground)
        IN  /\ swapped.found = result.found
            /\ swapped.rgb = result.rgb

\* C29 witness: a call on two different colours has returned a colour, the
\* one the call with the arguments exchanged returns, and not what the same
\* arguments give when the other colour is adjusted.
SwappedCallAgrees ==
    /\ pc = "returned"
    /\ result.found
    /\ foreground # background
    /\ findAccessibleColor(background, foreground, targetRatio,
                           ~adjustForeground).rgb = result.rgb
    /\ findAccessibleColor(foreground, background, targetRatio,
                           ~adjustForeground).rgb # result.rgb

(***************************************************************************)
(* findAccessibleColor called on pairs that already meet the target        *)
(***************************************************************************)

MetColors ==
    {Rgb(0, 0, 0), Rgb(118, 118, 118), Rgb(255, 255, 255),
     Rgb(78, 71, 123), Rgb(249, 241, 58),
     Rgb(244, 221, 61), Rgb(160, 110, 135)}

\* Target ratios 3, 4.5 and 7, in units of 1/RatioUnit.
MetTargets == {1200, 1800, 2800}

InitMetSearch ==
    /\ pc = "search"
    /\ foreground \in MetColors
    /\ background \in MetColors
    /\ targetRatio \in MetTargets
    /\ RatioAtLeast(getContrastRatio(foreground, background), targetRatio)
    /\ adjustForeground \in BOOLEAN
    /\ minL = 0
    /\ maxL = 100 * LUnit
    /\ iterations = 0
    /\ result = NoColor
    /\ ParseIdle /\ HslIdle /\ ContrastIdle
    /\ AnalyzeIdle /\ SuggestIdle /\ ToolIdle /\ RelightIdle

SpecMetSearch == InitMetSearch /\ [][NextSearch]_vars

\* C30: when the pair handed in already meets the target, the call returns
\* a colour, and the lightness of that colour is within 1 of the lightness
\* of the subject.
MetPairStaysNearOriginal ==
    pc = "returned" =>
        /\ result.found
        /\ Abs(rgbToHsl(result.rgb).l - OriginalL) <= LUnit

(***************************************************************************)
(* A caller of adjustLightness that raises the lightness call after call   *)
(***************************************************************************)

\* The colour is measured against white and against black.
MeasureRelit(rgb, lightness) ==
    /\ litLightness' = lightness
    /\ relit' = adjustLightness(rgb, lightness)
    /\ onWhite' = getContrastRatio(relit', Rgb(255, 255, 255))
    /\ onBlack' = getContrastRatio(relit', Rgb(0, 0, 0))

InitRelight ==
    /\ pc = "relit"
    /\ litRgb \in SearchColors
    /\ litLightness \in LightnessGrid
    /\ relit = adjustLightness(litRgb, litLightness)
    /\ onWhite = getContrastRatio(relit, Rgb(255, 255, 255))
    /\ onBlack = getContrastRatio(relit, Rgb(0, 0, 0))
    /\ ParseIdle /\ HslIdle /\ ContrastIdle /\ SearchIdle
    /\ AnalyzeIdle /\ SuggestIdle /\ ToolIdle

\* The same colour is relit at a higher lightness.
RaiseLightnessStep ==
    /\ pc = "relit"
    /\ \E lightness \in LightnessGrid :
          /\ lightness > litLightness
          /\ MeasureRelit(litRgb, lightness)
    /\ UNCHANGED <<pc, litRgb, parseVars, hslVars, contrastVars, searchVars,
                   analyzeVars, suggestVars, toolVars>>

NextRelight == RaiseLightnessStep

SpecRelight == InitRelight /\ [][NextRelight]_vars

(***************************************************************************)
(* Properties of adjustLightness                                           *)
(***************************************************************************)

\* x * y as <<thousands, units>>, for factors whose product is not a number
\* of the width at hand.
Product(x, y) ==
    LET high == x * (y \div 1000)
        low == x * (y % 1000)
    IN  <<high + low \div 1000, low % 1000>>

\* ratio1 < ratio2
RatioBelow(ratio1, ratio2) ==
    LET left == Product(ratio1.num, ratio2.den)
        right == Product(ratio2.num, ratio1.den)
    IN  left[1] < right[1] \/ (left[1] = right[1] /\ left[2] < right[2])

\* The least difference of two lightness values, in units of 1/LUnit
\* percent, that moves a channel by a whole step of 1/255: 100/255 percent.
ChannelStep == (100 * LUnit) \div 255 + 1

\* C26 as claimed: whenever the lightness is raised, the contrast ratio
\* against white gets strictly lower and the one against black strictly
\* higher.
RaisingLightnessStrict ==
    [][litLightness' > litLightness =>
          (RatioBelow(onWhite', onWhite) /\ RatioBelow(onBlack, onBlack'))]_vars

\* C26 as amended: whenever the lightness is raised, the contrast ratio
\* against white does not get higher and the one against black does not get
\* lower; they get strictly lower and strictly higher when the lightness is
\* raised by 100/255 or more, as it is between two whole percents and
\* between two lightness values of the search.
RaisingLightnessMonotone ==
    [][litLightness' > litLightness =>
          /\ ~RatioBelow(onWhite, onWhite')
          /\ ~RatioBelow(onBlack', onBlack)
          /\ litLightness' - litLightness >= ChannelStep =>
                (RatioBelow(onWhite', onWhite) /\ RatioBelow(onBlack, onBlack'))]_vars

\* C26 witness: a colour relit at 3.125 percent, a lightness of the search,
\* is the colour it is at 3 percent, so neither ratio differs.
SameColorJustAbove ==
    /\ pc = "relit"
    /\ litLightness = 4 * 100
    /\ relit = adjustLightness(litRgb, 3 * LUnit)
    /\ onWhite = getContrastRatio(adjustLightness(litRgb, 3 * LUnit),
                                  Rgb(255, 255, 255))
    /\ onBlack = getContrastRatio(adjustLightness(litRgb, 3 * LUnit),
                                  Rgb(0, 0, 0))

=============================================================================
